---- MODULE Spec2Model ----
(***************************************************************************)
(* Wireframe renderer (main.cpp): start-up, OBJ mesh flattening, the       *)
(* render loop and the keyboard-driven Transform updater (processInput).   *)
(*                                                                         *)
(* Arithmetic is exact.  A number is a polynomial with integer             *)
(* coefficients in the program's four constants                            *)
(*     d = translationDistance, f = scaleFactor (1/f has exponent -1),     *)
(*     c = cos(rotationAngle),  s = sin(rotationAngle),                    *)
(* reduced by s*s = 1 - c*c.  It is a function from monomials              *)
(* <<d-exponent, f-exponent, c-exponent, s-exponent>> to their non-zero    *)
(* coefficients, so two numbers are equal as values of the model exactly   *)
(* when they are the same polynomial.  Rounding of 32-bit floats is not    *)
(* modelled.                                                               *)
(***************************************************************************)
EXTENDS Integers, Sequences, FiniteSets, TLC

\* ------------------------------------------------------------------ numbers

Zero == [m \in {} |-> 0]

Mono(t, n, i, j) == <<t, n, i, j>>

Term(k, m) == IF k = 0 THEN Zero ELSE [x \in {m} |-> k]

One == Term(1, Mono(0, 0, 0, 0))

Coef(p, m) == IF m \in DOMAIN p THEN p[m] ELSE 0

Add(p, q) ==
    IF p = Zero THEN q
    ELSE IF q = Zero THEN p
    ELSE LET D  == DOMAIN p \cup DOMAIN q
             NZ == {m \in D : Coef(p, m) + Coef(q, m) # 0}
         IN  [m \in NZ |-> Coef(p, m) + Coef(q, m)]

Neg(p) == [m \in DOMAIN p |-> 0 - p[m]]

Sub(p, q) == Add(p, Neg(q))

\* k*a times l*b for monomials a, b; s*s is rewritten to 1 - c*c
TermMul(k, a, l, b) ==
    IF a[4] + b[4] = 2
    THEN Add(Term(k * l, Mono(a[1] + b[1], a[2] + b[2], a[3] + b[3], 0)),
             Term(0 - (k * l), Mono(a[1] + b[1], a[2] + b[2], a[3] + b[3] + 2, 0)))
    ELSE Term(k * l, Mono(a[1] + b[1], a[2] + b[2], a[3] + b[3], a[4] + b[4]))

RECURSIVE SumTerms(_, _, _, _)
\* the sum of p[a]*a * l*b over the monomials a in S
SumTerms(p, S, l, b) ==
    IF S = {} THEN Zero
    ELSE LET a == CHOOSE x \in S : TRUE
         IN  Add(TermMul(p[a], a, l, b), SumTerms(p, S \ {a}, l, b))

RECURSIVE SumProducts(_, _, _)
\* the sum of p * q[b]*b over the monomials b in S
SumProducts(p, q, S) ==
    IF S = {} THEN Zero
    ELSE LET b == CHOOSE x \in S : TRUE
         IN  Add(SumTerms(p, DOMAIN p, q[b], b), SumProducts(p, q, S \ {b}))

Mul(p, q) ==
    IF p = Zero \/ q = Zero THEN Zero
    ELSE IF q = One THEN p
    ELSE IF p = One THEN q
    ELSE SumProducts(p, q, DOMAIN q)

\* the constants of processInput (main.cpp:179-181)
translationDistance == Term(1, Mono(1, 0, 0, 0))

scaleFactor == Term(1, Mono(0, 1, 0, 0))

\* 1.0f / scaleFactor
invScaleFactor == Term(1, Mono(0, -1, 0, 0))

\* cos and sin of +rotationAngle or -rotationAngle (sign is 1 or -1)
CosAngle(sign) == Term(1, Mono(0, 0, 1, 0))

SinAngle(sign) == Term(sign, Mono(0, 0, 0, 1))

\* ------------------------------------------------------------ glm vectors

Vec3(x, y, z) == <<x, y, z>>

Vec4(x, y, z, w) == <<x, y, z, w>>

\* column * scalar and column + column of a glm::mat4
ColScale(col, k) == [r \in 1..4 |-> Mul(col[r], k)]

ColAdd(a, b) == [r \in 1..4 |-> Add(a[r], b[r])]

\* glm::mat4(1.0f): columns of the identity; m[col][row]
Identity ==
    << Vec4(One, Zero, Zero, Zero), Vec4(Zero, One, Zero, Zero),
       Vec4(Zero, Zero, One, Zero), Vec4(Zero, Zero, Zero, One) >>

\* mutant of Translate: the offset is added in world axes (v is not taken
\* through the columns of m)
Translate_World(m, v) ==
    [m EXCEPT ![4] = ColAdd(m[4], Vec4(v[1], v[2], v[3], Zero))]

\* glm::translate(m, v): Result = m; Result[3] = m[0]*v[0] + m[1]*v[1] + m[2]*v[2] + m[3]
Translate(m, v) ==
    [m EXCEPT ![4] = ColAdd(ColAdd(ColAdd(ColScale(m[1], v[1]), ColScale(m[2], v[2])),
                                   ColScale(m[3], v[3])), m[4])]

\* glm::rotate(m, angle, v) for a unit axis v: the Rodrigues matrix Rot, then
\* Result[i] = m[0]*Rot[i][0] + m[1]*Rot[i][1] + m[2]*Rot[i][2], Result[3] = m[3]
Rotate(m, sign, axis) ==
    LET c    == CosAngle(sign)
        s    == SinAngle(sign)
        temp == [k \in 1..3 |-> Mul(Sub(One, c), axis[k])]
        Rot  == << << Add(c, Mul(temp[1], axis[1])),
                      Add(Mul(temp[1], axis[2]), Mul(s, axis[3])),
                      Sub(Mul(temp[1], axis[3]), Mul(s, axis[2])) >>,
                   << Sub(Mul(temp[2], axis[1]), Mul(s, axis[3])),
                      Add(c, Mul(temp[2], axis[2])),
                      Add(Mul(temp[2], axis[3]), Mul(s, axis[1])) >>,
                   << Add(Mul(temp[3], axis[1]), Mul(s, axis[2])),
                      Sub(Mul(temp[3], axis[2]), Mul(s, axis[1])),
                      Add(c, Mul(temp[3], axis[3])) >> >>
        Col(i) == ColAdd(ColAdd(ColScale(m[1], Rot[i][1]), ColScale(m[2], Rot[i][2])),
                         ColScale(m[3], Rot[i][3]))
    IN  << Col(1), Col(2), Col(3), m[4] >>

\* mutant of Scale: the rows of m are scaled instead of its columns
Scale_Rows(m, v) ==
    [col \in 1..4 |->
        Vec4(Mul(m[col][1], v[1]), Mul(m[col][2], v[2]), Mul(m[col][3], v[3]), m[col][4])]

\* glm::scale(m, v): Result[i] = m[i]*v[i] for i < 3, Result[3] = m[3]
Scale(m, v) ==
    << ColScale(m[1], v[1]), ColScale(m[2], v[2]), ColScale(m[3], v[3]), m[4] >>

\* ------------------------------------------------------- processInput

KEY_ESCAPE == "ESCAPE"

TransformKeys == {"W", "S", "A", "D", "Q", "E", "R", "F"}

AllKeys == TransformKeys \cup {KEY_ESCAPE}

YAxis == Vec3(Zero, One, Zero)

\* mutant of MoveDown: the offset is on the wrong axis
MoveDown_WrongAxis(m) == Translate(m, Vec3(Neg(translationDistance), Zero, Zero))

\* mutant of ScaleDown: the z factor is left at zero
ScaleDown_FlatZ(m) == Scale(m, Vec3(invScaleFactor, invScaleFactor, Zero))

\* main.cpp:188-195, the four translations
MoveUp(m) == Translate(m, Vec3(Zero, translationDistance, Zero))

MoveDown(m) == Translate(m, Vec3(Zero, Neg(translationDistance), Zero))

MoveLeft(m) == Translate(m, Vec3(Neg(translationDistance), Zero, Zero))

MoveRight(m) == Translate(m, Vec3(translationDistance, Zero, Zero))

\* main.cpp:198-201, the two rotations about the Y axis
RotateCw(m) == Rotate(m, 1, YAxis)

RotateCcw(m) == Rotate(m, -1, YAxis)

\* main.cpp:204-207, the two uniform scales
ScaleUp(m) == Scale(m, Vec3(scaleFactor, scaleFactor, scaleFactor))

ScaleDown(m) == Scale(m, Vec3(invScaleFactor, invScaleFactor, invScaleFactor))

\* if (glfwGetKey(window, GLFW_KEY_x) == GLFW_PRESS) transform = ...;
\* one operator per if-statement of main.cpp:188-207, ks the key state
IfW(m, ks) == IF "W" \in ks THEN MoveUp(m) ELSE m

IfS(m, ks) == IF "S" \in ks THEN MoveDown(m) ELSE m

IfA(m, ks) == IF "A" \in ks THEN MoveLeft(m) ELSE m

IfD(m, ks) == IF "D" \in ks THEN MoveRight(m) ELSE m

IfQ(m, ks) == IF "Q" \in ks THEN RotateCw(m) ELSE m

IfE(m, ks) == IF "E" \in ks THEN RotateCcw(m) ELSE m

IfR(m, ks) == IF "R" \in ks THEN ScaleUp(m) ELSE m

IfF(m, ks) == IF "F" \in ks THEN ScaleDown(m) ELSE m

\* main.cpp:188-195 in source order
Translations(m, ks) == IfD(IfA(IfS(IfW(m, ks), ks), ks), ks)

\* main.cpp:198-201
Rotations(m, ks) == IfE(IfQ(m, ks), ks)

\* main.cpp:204-207
Scales(m, ks) == IfF(IfR(m, ks), ks)

\* mutant of UpdateTransform: the rotation tests come before the translations
UpdateTransform_RotateFirst(m, ks) == Scales(Translations(Rotations(m, ks), ks), ks)

\* the eight if-statements of processInput on the key state ks
UpdateTransform(m, ks) == Scales(Rotations(Translations(m, ks), ks), ks)

\* mutant of CloseOnEscape: the escape test is missing
CloseOnEscape_Ignored(flag, ks) == flag

\* main.cpp:184-185: glfwSetWindowShouldClose(window, true) when escape is down
CloseOnEscape(flag, ks) == IF KEY_ESCAPE \in ks THEN TRUE ELSE flag

\* -------------------------------------------------------- mesh ingestion

\* mutant of VertexOf: the index is not scaled by the three floats per vertex
VertexOf_NoStride(attribVertices, index) ==
    << attribVertices[index + 1], attribVertices[index + 2], attribVertices[index + 3] >>

\* the three floats attrib.vertices[3*index + 0..2] (0-based in the source)
VertexOf(attribVertices, index) ==
    << attribVertices[3 * index + 1], attribVertices[3 * index + 2],
       attribVertices[3 * index + 3] >>

RECURSIVE FlattenShape(_, _)
\* the inner loop of main.cpp:109-114 over one shape's mesh.indices
FlattenShape(attribVertices, indices) ==
    IF indices = <<>> THEN <<>>
    ELSE VertexOf(attribVertices, Head(indices))
         \o FlattenShape(attribVertices, Tail(indices))

RECURSIVE FlattenShapes(_, _)
\* the outer loop of main.cpp:108-115 over the shapes
FlattenShapes(attribVertices, shapeList) ==
    IF shapeList = <<>> THEN <<>>
    ELSE FlattenShape(attribVertices, Head(shapeList))
         \o FlattenShapes(attribVertices, Tail(shapeList))

\* vertices.size() / 3, the count handed to glDrawArrays
DrawCount(verts) == Len(verts) \div 3

\* the vertex shader: gl_Position = transform * vec4(aPos, 1.0)
VertexShader(m, aPos) ==
    ColAdd(ColAdd(ColAdd(ColScale(m[1], aPos[1]), ColScale(m[2], aPos[2])),
                  ColScale(m[3], aPos[3])), m[4])

\* return codes of main
ExitGlfwInit == -1

ExitCreateWindow == -1

ExitGlewInit == -1

ExitLoadObj == 1

ExitNormal == 0

\* ------------------------------------------------------------ bounds

\* frames (loop bodies) per run
MaxFrames == 3

\* frames per run when the last frame may hold any combination of keys
MaxKeyFrames == 2

\* triangles per loaded mesh
MaxTris == 2

\* ------------------------------------------------------------- inputs

\* key states in which at most one key is down
SingleKeyStates == {{}} \cup {{k} : k \in AllKeys}

\* key states in which two opposite keys are down together
OppositeKeyStates == { {"W", "S"}, {"A", "D"}, {"Q", "E"}, {"R", "F"} }

\* the key states of the frame-by-frame runs
SequenceKeyStates == SingleKeyStates \cup OppositeKeyStates

\* every key state
AllKeyStates == SUBSET AllKeys

\* vertex_index values of a loader result with two vertices
VertexIds == {0, 1}

\* attrib.vertices of the loader results: two vertices, three floats each
AttribChoices == { <<10, 11, 12, 20, 21, 22>>, <<7, 7, 7, 7, 8, 7>> }

Triangles == [1..3 -> VertexIds]

\* index lists of n triangles
RECURSIVE IndexLists(_)
IndexLists(n) ==
    IF n = 0 THEN {<<>>}
    ELSE {t \o rest : t \in Triangles, rest \in IndexLists(n - 1)}

\* a loader result: attrib.vertices and the shapes' mesh.indices; the index
\* entries of up to MaxTris triangles are split over one or two shapes
LoadedMeshes ==
    { [attrib |-> a, shapes |-> sh] :
        a \in AttribChoices,
        sh \in UNION { {<<l>>} \cup {<<SubSeq(l, 1, 3 * k), SubSeq(l, 3 * k + 1, Len(l))>> :
                                        k \in 0..(Len(l) \div 3)} :
                       l \in UNION {IndexLists(n) : n \in 0..MaxTris} } }

\* the one-triangle mesh used where the mesh is not what is being examined
SampleMeshes == { [attrib |-> <<10, 11, 12, 20, 21, 22>>, shapes |-> << <<0, 1, 0>> >>] }

\* -------------------------------------------------------------- state

VARIABLES
    pc,            \* position in main
    exitCode,      \* main's return value, or NoExit while running
    failure,       \* which start-up call failed, "none" otherwise
    glfwLive,      \* glfwInit succeeded and glfwTerminate has not run
    window,        \* "none", "open", "destroyed"
    shaderProgram, \* "none", "linked", "deleted"
    mesh,          \* the loader's result (attrib.vertices, shapes) once loaded
    vertices,      \* std::vector<GLfloat> vertices
    VAO,           \* "none", "generated", "deleted"
    VBO,           \* "none", "generated", "deleted"
    uploads,       \* the data of each glBufferData call, in order
    transform,     \* glm::mat4 transform, or NoTransform before its declaration
    shouldClose,   \* the window's should-close flag
    keys,          \* the key state read by the last processInput
    closeRequest,  \* a close request was delivered by glfwPollEvents
    hist,          \* per frame: the key state read and the Transform before it
    frames,        \* loop bodies entered
    drawCalls,     \* per glDrawArrays call: the uniform uploaded and the vertex count
    presented,     \* glfwSwapBuffers calls
    released       \* the release calls made, in order

vars == << pc, exitCode, failure, glfwLive, window, shaderProgram, mesh, vertices,
           VAO, VBO, uploads, transform, shouldClose, keys, closeRequest, hist,
           frames, drawCalls, presented, released >>

NoExit == "running"

NoMesh == [loaded |-> FALSE, attrib |-> <<>>, shapes |-> <<>>]

NoTransform == <<>>

Init ==
    /\ pc = "glfwInit"
    /\ exitCode = NoExit
    /\ failure = "none"
    /\ glfwLive = FALSE
    /\ window = "none"
    /\ shaderProgram = "none"
    /\ mesh = NoMesh
    /\ vertices = <<>>
    /\ VAO = "none"
    /\ VBO = "none"
    /\ uploads = <<>>
    /\ transform = NoTransform
    /\ shouldClose = FALSE
    /\ keys = {}
    /\ closeRequest = FALSE
    /\ hist = <<>>
    /\ frames = 0
    /\ drawCalls = <<>>
    /\ presented = 0
    /\ released = <<>>

loopVars == << transform, shouldClose, keys, closeRequest, hist, frames, drawCalls,
               presented >>

gpuVars == << shaderProgram, VAO, VBO, uploads, released >>

meshVars == << mesh, vertices >>

\* a return statement of main
Return(code, why) ==
    /\ pc' = "exited"
    /\ exitCode' = code
    /\ failure' = why

Goto(label) ==
    /\ pc' = label
    /\ UNCHANGED << exitCode, failure >>

\* main.cpp:43-46
GlfwInitFails ==
    /\ pc = "glfwInit"
    /\ Return(ExitGlfwInit, "glfwInit")
    /\ UNCHANGED << glfwLive, window, loopVars, gpuVars, meshVars >>

\* main.cpp:43, 49-51
GlfwInitOk ==
    /\ pc = "glfwInit"
    /\ glfwLive' = TRUE
    /\ Goto("createWindow")
    /\ UNCHANGED << window, loopVars, gpuVars, meshVars >>

\* main.cpp:54-59: glfwTerminate, then return
CreateWindowFails ==
    /\ pc = "createWindow"
    /\ glfwLive' = FALSE
    /\ released' = Append(released, "glfw")
    /\ Return(ExitCreateWindow, "createWindow")
    /\ UNCHANGED << window, loopVars, shaderProgram, VAO, VBO, uploads, meshVars >>

\* main.cpp:54, 62
CreateWindowOk ==
    /\ pc = "createWindow"
    /\ window' = "open"
    /\ Goto("glewInit")
    /\ UNCHANGED << glfwLive, loopVars, gpuVars, meshVars >>

\* mutant of GlewInitFails: the failure branch returns 0
GlewInitFails_ReturnsZero ==
    /\ pc = "glewInit"
    /\ Return(ExitNormal, "glewInit")
    /\ UNCHANGED << glfwLive, window, loopVars, gpuVars, meshVars >>

\* main.cpp:65-68: nothing is released
GlewInitFails ==
    /\ pc = "glewInit"
    /\ Return(ExitGlewInit, "glewInit")
    /\ UNCHANGED << glfwLive, window, loopVars, gpuVars, meshVars >>

\* main.cpp:65, 71-91: viewport, compile, link (status unchecked), delete shaders
GlewInitOk ==
    /\ pc = "glewInit"
    /\ shaderProgram' = "linked"
    /\ Goto("loadObj")
    /\ UNCHANGED << glfwLive, window, loopVars, VAO, VBO, uploads, released, meshVars >>

\* mutant of LoadObjFails: the failure branch prints and falls through
LoadObjFails_NoReturn ==
    /\ pc = "loadObj"
    /\ pc' = "gpuSetup"
    /\ failure' = "loadObj"
    /\ UNCHANGED << exitCode, glfwLive, window, loopVars, gpuVars, meshVars >>

\* main.cpp:101-104
LoadObjFails ==
    /\ pc = "loadObj"
    /\ Return(ExitLoadObj, "loadObj")
    /\ UNCHANGED << glfwLive, window, loopVars, gpuVars, meshVars >>

\* main.cpp:101, 107-115: the loader's result, then the extraction loops
LoadObjOk(meshes) ==
    /\ pc = "loadObj"
    /\ \E m \in meshes :
         /\ mesh' = [loaded |-> TRUE, attrib |-> m.attrib, shapes |-> m.shapes]
         /\ vertices' = FlattenShapes(m.attrib, m.shapes)
    /\ Goto("gpuSetup")
    /\ UNCHANGED << glfwLive, window, loopVars, gpuVars >>

\* main.cpp:118-137: VAO, VBO, the one upload, transform = mat4(1.0f)
GpuSetup ==
    /\ pc = "gpuSetup"
    /\ VAO' = "generated"
    /\ VBO' = "generated"
    /\ uploads' = Append(uploads, vertices)
    /\ transform' = Identity
    /\ Goto("loopCheck")
    /\ UNCHANGED << glfwLive, window, shaderProgram, released, meshVars, shouldClose,
                    keys, closeRequest, hist, frames, drawCalls, presented >>

\* mutant of LoopExit: the loop may end whatever the flag says
LoopExit_Unconditional ==
    /\ pc = "loopCheck"
    /\ Goto("cleanup")
    /\ UNCHANGED << glfwLive, window, loopVars, gpuVars, meshVars >>

\* main.cpp:140, condition false: leave the loop
LoopExit ==
    /\ pc = "loopCheck"
    /\ shouldClose
    /\ Goto("cleanup")
    /\ UNCHANGED << glfwLive, window, loopVars, gpuVars, meshVars >>

\* main.cpp:140, condition true: enter the body
LoopEnter(maxFrames) ==
    /\ pc = "loopCheck"
    /\ ~shouldClose
    /\ frames < maxFrames
    /\ frames' = frames + 1
    /\ Goto("processInput")
    /\ UNCHANGED << glfwLive, window, gpuVars, meshVars, transform, shouldClose, keys,
                    closeRequest, hist, drawCalls, presented >>

\* mutant of ProcessInput: processInput returns right after it sets should-close
ProcessInput_EscapeReturns(keyStates) ==
    /\ pc = "processInput"
    /\ \E ks \in keyStates :
         /\ keys' = ks
         /\ hist' = Append(hist, [keys |-> ks, before |-> transform])
         /\ shouldClose' = CloseOnEscape(shouldClose, ks)
         /\ transform' = IF KEY_ESCAPE \in ks THEN transform
                          ELSE UpdateTransform(transform, ks)
    /\ Goto("render")
    /\ UNCHANGED << glfwLive, window, gpuVars, meshVars, closeRequest, frames,
                    drawCalls, presented >>

\* main.cpp:143, 177-208: processInput on the key state the provider reports
ProcessInput(keyStates) ==
    /\ pc = "processInput"
    /\ \E ks \in keyStates :
         /\ keys' = ks
         /\ hist' = Append(hist, [keys |-> ks, before |-> transform])
         /\ shouldClose' = CloseOnEscape(shouldClose, ks)
         /\ transform' = UpdateTransform(transform, ks)
    /\ Goto("render")
    /\ UNCHANGED << glfwLive, window, gpuVars, meshVars, closeRequest, frames,
                    drawCalls, presented >>

\* main.cpp:146-159: clear, use program, upload the uniform, draw
Render ==
    /\ pc = "render"
    /\ drawCalls' = Append(drawCalls, [uniform |-> transform, count |-> DrawCount(vertices)])
    /\ Goto("swapPoll")
    /\ UNCHANGED << glfwLive, window, gpuVars, meshVars, transform, shouldClose, keys,
                    closeRequest, hist, frames, presented >>

\* main.cpp:162-163: present, then poll; the provider may deliver a close request
SwapPoll ==
    /\ pc = "swapPoll"
    /\ presented' = presented + 1
    /\ \E req \in BOOLEAN :
         /\ closeRequest' = (closeRequest \/ req)
         /\ shouldClose' = (shouldClose \/ req)
    /\ Goto("loopCheck")
    /\ UNCHANGED << glfwLive, window, gpuVars, meshVars, transform, keys, hist, frames,
                    drawCalls >>

\* mutant of Cleanup: the window is destroyed before the program is deleted
Cleanup_WindowFirst ==
    /\ pc = "cleanup"
    /\ VAO' = "deleted"
    /\ VBO' = "deleted"
    /\ shaderProgram' = "deleted"
    /\ window' = "destroyed"
    /\ glfwLive' = FALSE
    /\ released' = released \o << "VAO", "VBO", "window", "program", "glfw" >>
    /\ Return(ExitNormal, "none")
    /\ UNCHANGED << uploads, meshVars, loopVars >>

\* main.cpp:167-173
Cleanup ==
    /\ pc = "cleanup"
    /\ VAO' = "deleted"
    /\ VBO' = "deleted"
    /\ shaderProgram' = "deleted"
    /\ window' = "destroyed"
    /\ glfwLive' = FALSE
    /\ released' = released \o << "VAO", "VBO", "program", "window", "glfw" >>
    /\ Return(ExitNormal, "none")
    /\ UNCHANGED << uploads, meshVars, loopVars >>

Startup ==
    \/ GlfwInitFails
    \/ GlfwInitOk
    \/ CreateWindowFails
    \/ CreateWindowOk
    \/ GlewInitFails
    \/ GlewInitOk
    \/ LoadObjFails

Frame ==
    \/ LoopExit
    \/ Render
    \/ SwapPoll
    \/ Cleanup

\* one key, or two opposite keys, per frame, over MaxFrames frames
Next ==
    \/ Startup
    \/ LoadObjOk(SampleMeshes)
    \/ GpuSetup
    \/ LoopEnter(MaxFrames)
    \/ ProcessInput(SequenceKeyStates)
    \/ Frame

Spec == Init /\ [][Next]_vars

\* MaxKeyFrames frames: at most one key down per frame, then any combination
\* of keys in the last one
NextKeys ==
    \/ Startup
    \/ LoadObjOk(SampleMeshes)
    \/ GpuSetup
    \/ LoopEnter(MaxKeyFrames)
    \/ (frames < MaxKeyFrames /\ ProcessInput(SingleKeyStates))
    \/ (frames = MaxKeyFrames /\ ProcessInput(AllKeyStates))
    \/ Frame

SpecKeys == Init /\ [][NextKeys]_vars

\* any loaded mesh, over MaxFrames frames without transform keys
NextMesh ==
    \/ Startup
    \/ LoadObjOk(LoadedMeshes)
    \/ GpuSetup
    \/ LoopEnter(MaxFrames)
    \/ ProcessInput({{}, {KEY_ESCAPE}})
    \/ Frame

SpecMesh == Init /\ [][NextMesh]_vars
\* ------------------------------------------------------------- claims

\* the frames in which processInput read the escape key as pressed
EscapeFrames == {i \in 1..Len(hist) : KEY_ESCAPE \in hist[i].keys}

EscapeObserved == EscapeFrames # {}

\* C1: once processInput reads the escape key as pressed, should-close is set;
\* the next evaluation of the loop condition leaves the loop, so the frame that
\* read escape is the last loop body entered, and once the loop has been left
\* exactly the frames entered so far have been drawn and none is drawn later.
C1_EscapeEndsLoop ==
    /\ [](EscapeObserved =>
            /\ shouldClose
            /\ EscapeFrames = {Len(hist)}
            /\ frames = Len(hist)
            /\ pc \in {"render", "swapPoll", "loopCheck", "cleanup", "exited"}
            /\ (pc \in {"loopCheck", "cleanup", "exited"} => Len(drawCalls) = frames))
    /\ [][(EscapeObserved /\ pc = "loopCheck") => pc' = "cleanup"]_vars
    /\ [][(EscapeObserved /\ pc \in {"loopCheck", "cleanup", "exited"})
            => (drawCalls' = drawCalls /\ frames' = frames /\ presented' = presented)]_vars

\* escape was read in the second frame and the process has ended
C1_Witness ==
    /\ pc = "exited"
    /\ Len(hist) = 2
    /\ hist[1].keys = {"W"}
    /\ hist[2].keys = {KEY_ESCAPE}
    /\ ~closeRequest
    /\ Len(drawCalls) = 2

\* C2: the shutdown code is reached only from a loop-condition check that saw
\* should-close set, and should-close is set only by processInput reading the
\* escape key or by a close request delivered while polling; transform keys
\* and the number of frames never end the loop.
C2_LoopEndsOnlyOnClose ==
    /\ [][(pc' = "cleanup" /\ pc # "cleanup") => (pc = "loopCheck" /\ shouldClose)]_vars
    /\ [][(~shouldClose /\ shouldClose') =>
            \/ (pc = "processInput" /\ KEY_ESCAPE \in keys')
            \/ (pc = "swapPoll" /\ closeRequest')]_vars
    /\ [](shouldClose => (EscapeObserved \/ closeRequest))
    /\ []((pc = "cleanup" \/ (pc = "exited" /\ failure = "none"))
            => (shouldClose /\ (EscapeObserved \/ closeRequest)))

\* the loop ended on a close request after frames with transform keys only
C2_Witness ==
    /\ pc = "exited"
    /\ exitCode = ExitNormal
    /\ closeRequest
    /\ ~EscapeObserved
    /\ Len(hist) = 2
    /\ hist[1].keys = {"Q"}
    /\ hist[2].keys = {"R", "F"}

\* C3: when the mesh loader reports failure the process exits with status 1,
\* no vertex-array or buffer object was generated, nothing was uploaded and
\* the render loop was never entered.
C3_LoadFailureExitsBeforeGpu ==
    failure = "loadObj" =>
        /\ pc = "exited"
        /\ exitCode = 1
        /\ VAO = "none"
        /\ VBO = "none"
        /\ uploads = <<>>
        /\ ~mesh.loaded
        /\ vertices = <<>>
        /\ frames = 0
        /\ drawCalls = <<>>
        /\ presented = 0

\* the loader failed after the window, the context and the program were set up
C3_Witness ==
    /\ failure = "loadObj"
    /\ pc = "exited"
    /\ window = "open"
    /\ shaderProgram = "linked"

FailureKinds == {"glfwInit", "createWindow", "glewInit", "loadObj"}

\* the value of the return statement on each failure path
ReturnCodeOf(kind) ==
    CASE kind = "glfwInit" -> ExitGlfwInit
      [] kind = "createWindow" -> ExitCreateWindow
      [] kind = "glewInit" -> ExitGlewInit
      [] kind = "loadObj" -> ExitLoadObj

\* exit 0 exactly on the normal window close; every start-up failure exits
\* non-zero before the loop starts
ExitCodeRule ==
    /\ (pc = "exited" => ((exitCode = 0) <=> (failure = "none")))
    /\ ((pc = "exited" /\ failure = "none") => released # <<>>)
    /\ (failure \in FailureKinds =>
            /\ pc = "exited"
            /\ exitCode = ReturnCodeOf(failure)
            /\ exitCode # 0
            /\ frames = 0
            /\ drawCalls = <<>>)

\* C4 as stated: the exit-code rule, and distinct failure kinds exit with
\* distinct codes.
C4_Original ==
    /\ ExitCodeRule
    /\ (failure \in FailureKinds =>
            \A other \in FailureKinds \ {failure} : exitCode # ReturnCodeOf(other))

\* C4 as amended: the exit-code rule; the windowing-init, window-creation and
\* extension-loader failures share one code (-1) and only the mesh-load
\* failure has a code of its own (1).
C4_ExitCodes ==
    /\ ExitCodeRule
    /\ (failure \in {"glfwInit", "createWindow", "glewInit"} => exitCode = -1)
    /\ (failure = "loadObj" => exitCode = 1)

\* the extension loader failed: exit -1 with the window still open
C4_Witness ==
    /\ failure = "glewInit"
    /\ pc = "exited"
    /\ exitCode = -1
    /\ window = "open"
    /\ glfwLive
RECURSIVE TotalEntries(_)
\* the number of index entries of all shapes
TotalEntries(shapeList) ==
    IF shapeList = <<>> THEN 0
    ELSE Len(Head(shapeList)) + TotalEntries(Tail(shapeList))

RECURSIVE EntryAt(_, _)
\* the k-th index entry in input order: shapes in order, indices in order
EntryAt(shapeList, k) ==
    IF k <= Len(Head(shapeList)) THEN Head(shapeList)[k]
    ELSE EntryAt(Tail(shapeList), k - Len(Head(shapeList)))

\* C5: for a loaded mesh with T index entries the flat vertex sequence has 3*T
\* floats, its k-th group of three is the x, y, z of the vertex the k-th index
\* entry refers to, in input order and without deduplication; the one upload
\* is that sequence, every draw call requests T vertices, and neither the mesh
\* nor the sequence changes once loaded.
C5_Flattening ==
    /\ [](mesh.loaded =>
            LET T == TotalEntries(mesh.shapes)
            IN  /\ Len(vertices) = 3 * T
                /\ \A k \in 1..T : \A j \in 1..3 :
                      vertices[3 * (k - 1) + j] = mesh.attrib[3 * EntryAt(mesh.shapes, k) + j]
                /\ \A u \in 1..Len(uploads) : uploads[u] = vertices
                /\ \A n \in 1..Len(drawCalls) : drawCalls[n].count = T)
    /\ [][mesh.loaded => (mesh' = mesh /\ vertices' = vertices)]_vars

\* two shapes of one triangle each that repeat vertices, drawn in two frames
C5_Witness ==
    /\ mesh.loaded
    /\ mesh.attrib = <<10, 11, 12, 20, 21, 22>>
    /\ mesh.shapes = << <<0, 1, 1>>, <<1, 0, 0>> >>
    /\ vertices = <<10, 11, 12, 20, 21, 22, 20, 21, 22, 20, 21, 22, 10, 11, 12, 10, 11, 12>>
    /\ uploads = <<vertices>>
    /\ Len(drawCalls) = 2
    /\ drawCalls[2].count = 6
\* ------------------------------------------- matrices, for the claims

\* the matrix product a * b of two column-major 4x4 matrices
MatMul(a, b) ==
    [j \in 1..4 |->
        ColAdd(ColAdd(ColAdd(ColScale(a[1], b[j][1]), ColScale(a[2], b[j][2])),
                      ColScale(a[3], b[j][3])), ColScale(a[4], b[j][4]))]

\* the product m * v of a matrix and a column vector
MatVec(m, v) ==
    ColAdd(ColAdd(ColAdd(ColScale(m[1], v[1]), ColScale(m[2], v[2])),
                  ColScale(m[3], v[3])), ColScale(m[4], v[4]))

\* the integer x as a number
Num(x) == Term(x, Mono(0, 0, 0, 0))

TranslationMatrix(x, y, z) ==
    << Vec4(One, Zero, Zero, Zero), Vec4(Zero, One, Zero, Zero),
       Vec4(Zero, Zero, One, Zero), Vec4(x, y, z, One) >>

\* rotation about the Y axis by sign * rotationAngle
RotationYMatrix(sign) ==
    << Vec4(CosAngle(sign), Zero, Neg(SinAngle(sign)), Zero),
       Vec4(Zero, One, Zero, Zero),
       Vec4(SinAngle(sign), Zero, CosAngle(sign), Zero),
       Vec4(Zero, Zero, Zero, One) >>

ScalingMatrix(k) ==
    << Vec4(k, Zero, Zero, Zero), Vec4(Zero, k, Zero, Zero),
       Vec4(Zero, Zero, k, Zero), Vec4(Zero, Zero, Zero, One) >>

\* the operation of each transform key, as a matrix
OpMatrix(key) ==
    CASE key = "W" -> TranslationMatrix(Zero, translationDistance, Zero)
      [] key = "S" -> TranslationMatrix(Zero, Neg(translationDistance), Zero)
      [] key = "A" -> TranslationMatrix(Neg(translationDistance), Zero, Zero)
      [] key = "D" -> TranslationMatrix(translationDistance, Zero, Zero)
      [] key = "Q" -> RotationYMatrix(1)
      [] key = "E" -> RotationYMatrix(-1)
      [] key = "R" -> ScalingMatrix(scaleFactor)
      [] key = "F" -> ScalingMatrix(invScaleFactor)

\* translations, then rotations, then scales
KeyOrder == << "W", "S", "A", "D", "Q", "E", "R", "F" >>

RECURSIVE HeldProduct(_, _)
\* the product, in KeyOrder from position i on, of the operations of the keys in ks
HeldProduct(ks, i) ==
    IF i > Len(KeyOrder) THEN Identity
    ELSE IF KeyOrder[i] \in ks THEN MatMul(OpMatrix(KeyOrder[i]), HeldProduct(ks, i + 1))
    ELSE HeldProduct(ks, i + 1)

\* the determinant of the 3x3 matrix with columns a, b, c
Det3(a, b, c) ==
    Add(Sub(Mul(a[1], Sub(Mul(b[2], c[3]), Mul(b[3], c[2]))),
            Mul(a[2], Sub(Mul(b[1], c[3]), Mul(b[3], c[1])))),
        Mul(a[3], Sub(Mul(b[1], c[2]), Mul(b[2], c[1]))))

\* rows 1..3 of column col
Top(m, col) == << m[col][1], m[col][2], m[col][3] >>

\* the determinant of a 4x4 matrix, expanded along its bottom row
Det4(m) ==
    Add(Sub(Mul(m[4][4], Det3(Top(m, 1), Top(m, 2), Top(m, 3))),
            Mul(m[3][4], Det3(Top(m, 1), Top(m, 2), Top(m, 4)))),
        Sub(Mul(m[2][4], Det3(Top(m, 1), Top(m, 3), Top(m, 4))),
            Mul(m[1][4], Det3(Top(m, 2), Top(m, 3), Top(m, 4)))))

\* the key states read so far, frame by frame
KeysOf(h) == [i \in 1..Len(h) |-> h[i].keys]

\* the Transform after the processInput of frame i
After(i) == IF i < Len(hist) THEN hist[i + 1].before ELSE transform

\* pairs of keys whose operations are each other's inverse
InversePairs ==
    { <<"W", "S">>, <<"S", "W">>, <<"A", "D">>, <<"D", "A">>, <<"R", "F">>, <<"F", "R">> }

C7_OrderMatters ==
    /\ KeysOf(hist) = << {"D"}, {"Q"} >> =>
          /\ transform # UpdateTransform(UpdateTransform(Identity, {"Q"}), {"D"})
          /\ transform[4] = Vec4(translationDistance, Zero, Zero, One)
    /\ KeysOf(hist) = << {"Q"}, {"D"} >> =>
          /\ transform # UpdateTransform(UpdateTransform(Identity, {"D"}), {"Q"})
          /\ transform[4] = Vec4(Mul(translationDistance, CosAngle(1)), Zero,
                                 Neg(Mul(translationDistance, SinAngle(1))), One)

\* the run that translates right and then rotates, drawn twice
C7_Witness ==
    /\ KeysOf(hist) = << {"D"}, {"Q"} >>
    /\ Len(drawCalls) = 2
    /\ drawCalls[2].uniform = transform

\* processInput has just returned: hist ends with the frame it handled
JustUpdated == pc = "render"

\* the frame handled last: the key state read and the Transform before it
Last == hist[Len(hist)]

\* C8: the keys held in a frame all apply in that frame, each once, in the
\* fixed order translations, rotations, scales: when processInput returns the
\* Transform is the Transform before the frame times the operations of the
\* held keys in that order.
C8_FixedOrder ==
    JustUpdated => transform = MatMul(Last.before, HeldProduct(Last.keys, 1))

\* a translation, a rotation and a scale held in the second of two frames
C8_Witness ==
    /\ KeysOf(hist) = << {"Q"}, {"F", "Q", "A", "W"} >>
    /\ hist[2].before # Identity
    /\ pc = "render"

\* the vertices drawn, as vec4(aPos, 1.0)
DrawnVertices ==
    { << Num(vertices[3 * k + 1]), Num(vertices[3 * k + 2]), Num(vertices[3 * k + 3]), One >> :
        k \in 0..(DrawCount(vertices) - 1) }

\* exactly one transform key was down in the frame handled last
SingleKeyFrame == \E k \in TransformKeys : Last.keys = {k}

LastKey == CHOOSE k \in TransformKeys : Last.keys = {k}

\* the frame handled last has been drawn
JustDrawn == pc = "swapPoll"

\* C9 as stated: the operation is the left factor, Transform' = Op * Transform.
C9_Original ==
    (JustDrawn /\ SingleKeyFrame) =>
        transform = MatMul(OpMatrix(LastKey), Last.before)

\* C9 as amended: the operation is the right factor, Transform' = Transform * Op,
\* so the shader takes a vertex through the most recent operation first and
\* then through the Transform accumulated before it.
C9_PostMultiplies ==
    (JustDrawn /\ SingleKeyFrame) =>
        /\ transform = MatMul(Last.before, OpMatrix(LastKey))
        /\ \A v \in DrawnVertices :
              VertexShader(drawCalls[Len(drawCalls)].uniform, v) =
                  MatVec(Last.before, MatVec(OpMatrix(LastKey), v))

\* a scale and then a translation, which do not commute, drawn
C9_Witness ==
    /\ KeysOf(hist) = << {"R"}, {"A"} >>
    /\ JustDrawn
    /\ Len(drawCalls) = 2
    /\ DrawnVertices # {}

\* scale-up frames minus scale-down frames
RECURSIVE NetScale(_)
NetScale(h) ==
    IF h = <<>> THEN 0
    ELSE (IF "R" \in Head(h).keys THEN 1 ELSE 0) - (IF "F" \in Head(h).keys THEN 1 ELSE 0)
         + NetScale(Tail(h))

ReleasesOf(r) == {i \in 1..Len(released) : released[i] = r}

\* the objects that live in the window's OpenGL context
GpuResources == {"VAO", "VBO", "program"}

\* the render loop was left and main returned after the shutdown code
ShutdownDone == pc = "exited" /\ failure = "none"

\* C11: when the render loop has exited and main has returned, the
\* vertex-array object, the vertex-buffer object and the shader program were
\* each released exactly once, all of them before the window was destroyed,
\* the window was destroyed before glfwTerminate, and main returned 0; nothing
\* is released while the loop runs, and no draw call follows a release.
C11_ShutdownOrdering ==
    /\ [](ShutdownDone =>
            /\ Len(released) = 5
            /\ \A r \in GpuResources \cup {"window", "glfw"} :
                  Cardinality(ReleasesOf(r)) = 1
            /\ \A g \in GpuResources : \A i \in ReleasesOf(g) :
                  \A j \in ReleasesOf("window") : i < j
            /\ \A i \in ReleasesOf("window") : \A j \in ReleasesOf("glfw") : i < j
            /\ VAO = "deleted"
            /\ VBO = "deleted"
            /\ shaderProgram = "deleted"
            /\ window = "destroyed"
            /\ ~glfwLive
            /\ exitCode = 0)
    /\ [](pc \in {"loopCheck", "processInput", "render", "swapPoll", "cleanup"}
            => released = <<>>)
    /\ [][pc = "cleanup" => ShutdownDone']_vars
    /\ [][released # <<>> => (drawCalls' = drawCalls /\ released' = released)]_vars

\* two frames were drawn, the loop was left and the shutdown code has run
C11_Witness ==
    /\ ShutdownDone
    /\ Len(drawCalls) = 2
    /\ Len(released) = 5
    /\ released[4] = "window"

\* the Transform that the keys of the frame handled last give without escape
LastWithoutEscape == UpdateTransform(Last.before, Last.keys \ {KEY_ESCAPE})

\* the body of the frame handled last has run to its end
FrameComplete == pc \in {"loopCheck", "cleanup"} \/ ShutdownDone

\* C12: escape does not cut its frame short. The Transform a frame is drawn
\* with is the one the other held keys give, escape held or not; every
\* draw call uploads the Transform already updated by its own frame's input;
\* and when the loop condition is checked again, and after the loop has been
\* left, every frame entered, the escape frame included, has been drawn once
\* and presented once.
C12_EscapeFrameCompletes ==
    /\ (JustDrawn => transform = LastWithoutEscape)
    /\ \A i \in 1..Len(drawCalls) : drawCalls[i].uniform = After(i)
    /\ (pc = "render" =>
            (Len(drawCalls) = frames - 1 /\ presented = frames - 1 /\ Len(hist) = frames))
    /\ (pc = "swapPoll" =>
            (Len(drawCalls) = frames /\ presented = frames - 1 /\ Len(hist) = frames))
    /\ (FrameComplete =>
            (Len(drawCalls) = frames /\ presented = frames /\ Len(hist) = frames))
    /\ ((EscapeObserved /\ FrameComplete) =>
            /\ KEY_ESCAPE \in Last.keys
            /\ shouldClose
            /\ drawCalls[Len(hist)].uniform = LastWithoutEscape)

\* escape was held together with a translation, a rotation and a scale in the
\* second frame; that frame was drawn with the moved Transform and presented
C12_Witness ==
    /\ ShutdownDone
    /\ KeysOf(hist) = << {"W"}, {KEY_ESCAPE, "D", "Q", "R"} >>
    /\ transform # Last.before
    /\ drawCalls[2].uniform = transform
    /\ presented = 2
====
